---- MODULE Spec2Model ----
(***************************************************************************)
(* Model of the messenger backend's write and read paths over Cassandra:   *)
(*   app/controllers/message_controller.py      (send_message, listing)    *)
(*   app/controllers/conversation_controller.py (conversation listing)     *)
(*   scripts/setup_db.py                        (tables, keys, counters)   *)
(* Every cassandra_client.execute call is one atomic store round trip;     *)
(* concurrent requests interleave between round trips.  Tables are sets of *)
(* rows in which the primary key is unique (INSERT and UPDATE are upserts).*)
(* An absent column value is 0 for integers and "null" for text.           *)
(***************************************************************************)
EXTENDS Integers, Sequences, FiniteSets, TLC

\* ---- bounds of the model ----
NumUsers == 2        \* rows of the users table: user_id 1..NumUsers
MaxTime == 2         \* datetime.now() yields a value in 1..MaxTime
MaxSends == 2        \* requests started in all, interleaved callers
SeqMaxSends == 4     \* requests started in all, one caller
FailMaxSends == 2    \* requests started in all, store round trips may fail
SeqFailMaxSends == 3 \* requests started in all, one caller, trips may fail
MaxPage == 3         \* pages asked of the readers: 1..MaxPage
MaxLimit == 2        \* limits asked of the readers: 1..MaxLimit
ReadMaxSends == 2    \* requests started in all, one sender beside a reader

Procs == {"p1", "p2"}
\* the text a request carries: each sender has a text of its own
Texts == <<"a", "b", "c", "d", "e">>
TextOf(s) == Texts[((s - 1) % Len(Texts)) + 1]
Times == 1..MaxTime
users == 1..NumUsers
UserIds == 1..(NumUsers + 1)
Pages == 1..MaxPage
Limits == 1..MaxLimit
\* cutoffs asked of the reader: every recorded time and one past the last
Cutoffs == 1..(MaxTime + 1)

VARIABLES counters, conversations, messages_by_conversation,
          conversations_by_user, loc, issued, nreq, snap, rd

store == <<counters, conversations, messages_by_conversation,
           conversations_by_user>>
vars == <<counters, conversations, messages_by_conversation,
          conversations_by_user, loc, issued, nreq, snap, rd>>

\* ---- helpers ----
min(a, b) == IF a <= b THEN a ELSE b
\* variant: the first argument, whatever the order
maxFirst(a, b) == a
max(a, b) == IF a >= b THEN a ELSE b

\* positions of a request that is not inside send_message
Rest == {"idle", "done", "not_found", "failed"}

\* the reader's request: its arguments, its position, the total it counted,
\* the number of matching rows its fetch found in the table, and its page
IdleRead ==
  [pc |-> "idle", kind |-> "none", id |-> 0, before |-> 0, page |-> 0,
   limit |-> 0, total |-> 0, present |-> 0, data |-> <<>>]

IdleLocals ==
  [pc |-> "idle", sender_id |-> 0, receiver_id |-> 0, content |-> "null",
   user1_id |-> 0, user2_id |-> 0, conversation_id |-> 0, message_id |-> 0,
   created_at |-> 0, detail |-> "null"]

Init ==
  /\ counters = [name \in {"message_id", "conversation_id"} |-> 0]
  /\ conversations = {}
  /\ messages_by_conversation = {}
  /\ conversations_by_user = {}
  /\ loc = [p \in Procs |-> IdleLocals]
  /\ issued = [name \in {"message_id", "conversation_id"} |-> <<>>]
  /\ nreq = 0
  /\ snap = [proc |-> "none", counters |-> counters, conversations |-> {},
             messages |-> {}, index |-> {}]
  /\ rd = IdleRead

\* ---- store operations ----
\* INSERT INTO conversations (conversation_id, user1_id, user2_id,
\* last_message_at): an upsert on conversation_id that leaves
\* last_message_content of an existing row as it is.
InsertConversationRow(tbl, cid, u1, u2, now) ==
  LET old == {r \in tbl : r.conversation_id = cid}
      keep == IF old = {} THEN "null"
              ELSE (CHOOSE r \in old : TRUE).last_message_content
  IN (tbl \ old) \cup
     {[conversation_id |-> cid, user1_id |-> u1, user2_id |-> u2,
       last_message_at |-> now, last_message_content |-> keep]}

\* UPDATE conversations SET last_message_at, last_message_content WHERE
\* conversation_id: an upsert that leaves user1_id and user2_id as they are.
UpdateConversationRow(tbl, cid, t, c) ==
  LET old == {r \in tbl : r.conversation_id = cid}
      u1 == IF old = {} THEN 0 ELSE (CHOOSE r \in old : TRUE).user1_id
      u2 == IF old = {} THEN 0 ELSE (CHOOSE r \in old : TRUE).user2_id
  IN (tbl \ old) \cup
     {[conversation_id |-> cid, user1_id |-> u1, user2_id |-> u2,
       last_message_at |-> t, last_message_content |-> c]}

\* variant: the message table keyed by (conversation_id, created_at) only
InsertMessageRowByTime(tbl, cid, t, mid, s, r, c) ==
  {m \in tbl : ~(m.conversation_id = cid /\ m.created_at = t)} \cup
  {[conversation_id |-> cid, created_at |-> t, message_id |-> mid,
    sender_id |-> s, receiver_id |-> r, content |-> c]}

\* INSERT INTO messages_by_conversation: upsert on
\* (conversation_id, created_at, message_id).
InsertMessageRow(tbl, cid, t, mid, s, r, c) ==
  {m \in tbl : ~(m.conversation_id = cid /\ m.created_at = t
                 /\ m.message_id = mid)} \cup
  {[conversation_id |-> cid, created_at |-> t, message_id |-> mid,
    sender_id |-> s, receiver_id |-> r, content |-> c]}

\* INSERT INTO conversations_by_user: upsert on
\* (user_id, last_message_at, conversation_id).
InsertIndexRow(tbl, u, cid, t, u1, u2, c) ==
  {e \in tbl : ~(e.user_id = u /\ e.last_message_at = t
                 /\ e.conversation_id = cid)} \cup
  {[user_id |-> u, conversation_id |-> cid, last_message_at |-> t,
    user1_id |-> u1, user2_id |-> u2, last_message_content |-> c]}

\* ---- the paginated readers ----
\* variant: the partition clustered oldest first
MsgBeforeOldestFirst(a, b) ==
  \/ a.created_at < b.created_at
  \/ a.created_at = b.created_at /\ a.message_id < b.message_id

\* CLUSTERING ORDER BY (created_at DESC, message_id ASC)
MsgBefore(a, b) ==
  \/ a.created_at > b.created_at
  \/ a.created_at = b.created_at /\ a.message_id < b.message_id

\* variant: ties on last_message_at broken by conversation_id descending
ConvBeforeIdDesc(a, b) ==
  \/ a.last_message_at > b.last_message_at
  \/ a.last_message_at = b.last_message_at
       /\ a.conversation_id > b.conversation_id

\* CLUSTERING ORDER BY (last_message_at DESC, conversation_id ASC)
ConvBefore(a, b) ==
  \/ a.last_message_at > b.last_message_at
  \/ a.last_message_at = b.last_message_at
       /\ a.conversation_id < b.conversation_id

RECURSIVE SetToSeq(_)
SetToSeq(S) ==
  IF S = {} THEN <<>>
  ELSE LET x == CHOOSE y \in S : TRUE IN <<x>> \o SetToSeq(S \ {x})

\* SELECT ... LIMIT n: the first n rows of the list
Take(rows, n) == SubSeq(rows, 1, min(n, Len(rows)))

\* Python's rows[a:b] for 0 <= a <= b
PySlice(rows, a, b) == SubSeq(rows, a + 1, min(b, Len(rows)))

\* variant: the offset is not applied
WindowFromStart(rows, offset, limit) == PySlice(rows, 0, limit)

\* rows[offset:offset + limit] if offset < len(rows) else []
Window(rows, offset, limit) ==
  IF offset < Len(rows) THEN PySlice(rows, offset, offset + limit) ELSE <<>>

MessagePartition(cid) ==
  {m \in messages_by_conversation : m.conversation_id = cid}

IndexPartition(u) == {e \in conversations_by_user : e.user_id = u}

SelectMessages(cid, n) ==
  Take(SortSeq(SetToSeq(MessagePartition(cid)), MsgBefore), n)

SelectUserConversations(u, n) ==
  Take(SortSeq(SetToSeq(IndexPartition(u)), ConvBefore), n)

MessageResponse(m) ==
  [id |-> m.message_id, conversation_id |-> m.conversation_id,
   sender_id |-> m.sender_id, receiver_id |-> m.receiver_id,
   content |-> m.content, created_at |-> m.created_at]

ConversationResponse(e) ==
  [id |-> e.conversation_id, user1_id |-> e.user1_id,
   user2_id |-> e.user2_id, last_message_at |-> e.last_message_at,
   last_message_content |-> e.last_message_content]

get_conversation_messages(conversation_id, page, limit) ==
  IF {r \in conversations : r.conversation_id = conversation_id} = {}
    THEN [status |-> "not_found", total |-> 0, page |-> page,
          limit |-> limit, data |-> <<>>]
    ELSE LET offset == (page - 1) * limit
             total == Cardinality(MessagePartition(conversation_id))
             fetched == SelectMessages(conversation_id, offset + limit)
             rows == Window(fetched, offset, limit)
         IN [status |-> "ok", total |-> total, page |-> page,
             limit |-> limit,
             data |-> [i \in 1..Len(rows) |-> MessageResponse(rows[i])]]

\* MessageModel.get_conversation_messages: offset is computed and not used;
\* the query is LIMIT limit and every row fetched is returned
MessageModel_get_conversation_messages(conversation_id, page, limit) ==
  LET offset == (page - 1) * limit
      result == SelectMessages(conversation_id, limit)
  IN [i \in 1..Len(result) |->
        [message_id |-> result[i].message_id, sender_id |-> result[i].sender_id,
         receiver_id |-> result[i].receiver_id, content |-> result[i].content,
         created_at |-> result[i].created_at]]

\* variant: the cutoff itself is not excluded
MessagesBeforeInclusive(cid, before_timestamp) ==
  {m \in MessagePartition(cid) : m.created_at <= before_timestamp}

\* WHERE conversation_id = %s AND created_at < %s
MessagesBefore(cid, before_timestamp) ==
  {m \in MessagePartition(cid) : m.created_at < before_timestamp}

SelectMessagesBefore(cid, before_timestamp, n) ==
  Take(SortSeq(SetToSeq(MessagesBefore(cid, before_timestamp)), MsgBefore), n)

get_messages_before_timestamp(conversation_id, before_timestamp, page, limit) ==
  IF {r \in conversations : r.conversation_id = conversation_id} = {}
    THEN [status |-> "not_found", total |-> 0, page |-> page,
          limit |-> limit, data |-> <<>>]
    ELSE LET offset == (page - 1) * limit
             total == Cardinality(MessagesBefore(conversation_id,
                                                 before_timestamp))
             fetched == SelectMessagesBefore(conversation_id,
                                             before_timestamp, offset + limit)
             rows == Window(fetched, offset, limit)
         IN [status |-> "ok", total |-> total, page |-> page,
             limit |-> limit,
             data |-> [i \in 1..Len(rows) |-> MessageResponse(rows[i])]]

\* variant: the user lookup's result is not tested
get_user_conversationsUnchecked(user_id, page, limit) ==
  LET total == Cardinality(IndexPartition(user_id))
      offset == (page - 1) * limit
      fetched == SelectUserConversations(user_id, offset + limit)
      rows == Window(fetched, offset, limit)
  IN [status |-> "ok", total |-> total, page |-> page, limit |-> limit,
      data |-> [i \in 1..Len(rows) |-> ConversationResponse(rows[i])]]

get_user_conversations(user_id, page, limit) ==
  IF user_id \notin users
    THEN [status |-> "not_found", total |-> 0, page |-> page,
          limit |-> limit, data |-> <<>>]
    ELSE LET total == Cardinality(IndexPartition(user_id))
             offset == (page - 1) * limit
             fetched == SelectUserConversations(user_id, offset + limit)
             rows == Window(fetched, offset, limit)
         IN [status |-> "ok", total |-> total, page |-> page,
             limit |-> limit,
             data |-> [i \in 1..Len(rows) |-> ConversationResponse(rows[i])]]

\* ---- send_message, one action per store round trip ----
SetLoc(p, l) == loc' = [loc EXCEPT ![p] = l]

Begin(p, s, r, c, cap) ==
  /\ loc[p].pc \in Rest
  /\ nreq < cap
  /\ nreq' = nreq + 1
  /\ SetLoc(p, [IdleLocals EXCEPT !.pc = "sel_sender", !.sender_id = s,
                                  !.receiver_id = r, !.content = c])
  /\ UNCHANGED <<store, issued>>

\* variant: the sender lookup's result is not tested
SelectSenderUnchecked(p) ==
  /\ loc[p].pc = "sel_sender"
  /\ SetLoc(p, [loc[p] EXCEPT !.pc = "sel_receiver"])
  /\ UNCHANGED <<store, issued>>

SelectSender(p) ==
  /\ loc[p].pc = "sel_sender"
  /\ IF loc[p].sender_id \in users
       THEN SetLoc(p, [loc[p] EXCEPT !.pc = "sel_receiver"])
       ELSE SetLoc(p, [loc[p] EXCEPT !.pc = "not_found", !.detail = "sender"])
  /\ UNCHANGED <<store, issued>>

SelectReceiver(p) ==
  /\ loc[p].pc = "sel_receiver"
  /\ IF loc[p].receiver_id \in users
       THEN SetLoc(p, [loc[p] EXCEPT !.pc = "sel_conversation"])
       ELSE SetLoc(p, [loc[p] EXCEPT !.pc = "not_found",
                                     !.detail = "receiver"])
  /\ UNCHANGED <<store, issued>>

\* variant: the pair is looked up as given, without canonical ordering
SelectConversationUnordered(p) ==
  /\ loc[p].pc = "sel_conversation"
  /\ LET u1 == loc[p].sender_id
         u2 == loc[p].receiver_id
         result == {r \in conversations : r.user1_id = u1 /\ r.user2_id = u2}
     IN IF result # {}
          THEN \E r \in result :
                 SetLoc(p, [loc[p] EXCEPT !.pc = "inc_message_id",
                              !.user1_id = u1, !.user2_id = u2,
                              !.conversation_id = r.conversation_id])
          ELSE SetLoc(p, [loc[p] EXCEPT !.pc = "inc_conversation_id",
                            !.user1_id = u1, !.user2_id = u2])
  /\ UNCHANGED <<store, issued>>

\* result[0] of the ALLOW FILTERING scan is the first matching row in token
\* order, which the program does not control: any matching row.
SelectConversation(p) ==
  /\ loc[p].pc = "sel_conversation"
  /\ LET u1 == min(loc[p].sender_id, loc[p].receiver_id)
         u2 == max(loc[p].sender_id, loc[p].receiver_id)
         result == {r \in conversations : r.user1_id = u1 /\ r.user2_id = u2}
     IN IF result # {}
          THEN \E r \in result :
                 SetLoc(p, [loc[p] EXCEPT !.pc = "inc_message_id",
                              !.user1_id = u1, !.user2_id = u2,
                              !.conversation_id = r.conversation_id])
          ELSE SetLoc(p, [loc[p] EXCEPT !.pc = "inc_conversation_id",
                            !.user1_id = u1, !.user2_id = u2])
  /\ UNCHANGED <<store, issued>>

IncConversationCounter(p) ==
  /\ loc[p].pc = "inc_conversation_id"
  /\ counters' = [counters EXCEPT !["conversation_id"] = @ + 1]
  /\ SetLoc(p, [loc[p] EXCEPT !.pc = "read_conversation_id"])
  /\ UNCHANGED <<conversations, messages_by_conversation,
                 conversations_by_user, issued>>

ReadConversationCounter(p) ==
  /\ loc[p].pc = "read_conversation_id"
  /\ SetLoc(p, [loc[p] EXCEPT !.pc = "ins_conversation",
                  !.conversation_id = counters["conversation_id"]])
  /\ issued' = [issued EXCEPT !["conversation_id"] =
                  Append(@, counters["conversation_id"])]
  /\ UNCHANGED store

\* variant: the insert is skipped when the pair already has a row
InsertConversationIfAbsent(p) ==
  /\ loc[p].pc = "ins_conversation"
  /\ IF \E r \in conversations : /\ r.user1_id = loc[p].user1_id
                                 /\ r.user2_id = loc[p].user2_id
       THEN UNCHANGED conversations
       ELSE \E now \in Times :
              conversations' = InsertConversationRow(conversations,
                  loc[p].conversation_id, loc[p].user1_id, loc[p].user2_id, now)
  /\ SetLoc(p, [loc[p] EXCEPT !.pc = "inc_message_id"])
  /\ UNCHANGED <<counters, messages_by_conversation, conversations_by_user,
                 issued>>

InsertConversation(p) ==
  /\ loc[p].pc = "ins_conversation"
  /\ \E now \in Times :
       conversations' = InsertConversationRow(conversations,
           loc[p].conversation_id, loc[p].user1_id, loc[p].user2_id, now)
  /\ SetLoc(p, [loc[p] EXCEPT !.pc = "inc_message_id"])
  /\ UNCHANGED <<counters, messages_by_conversation, conversations_by_user,
                 issued>>

\* variant: the counter is touched without being advanced (value + 0)
IncMessageCounterNoop(p) ==
  /\ loc[p].pc = "inc_message_id"
  /\ counters' = [counters EXCEPT !["message_id"] = @ + 0]
  /\ SetLoc(p, [loc[p] EXCEPT !.pc = "read_message_id"])
  /\ UNCHANGED <<conversations, messages_by_conversation,
                 conversations_by_user, issued>>

IncMessageCounter(p) ==
  /\ loc[p].pc = "inc_message_id"
  /\ counters' = [counters EXCEPT !["message_id"] = @ + 1]
  /\ SetLoc(p, [loc[p] EXCEPT !.pc = "read_message_id"])
  /\ UNCHANGED <<conversations, messages_by_conversation,
                 conversations_by_user, issued>>

ReadMessageCounter(p) ==
  /\ loc[p].pc = "read_message_id"
  /\ SetLoc(p, [loc[p] EXCEPT !.pc = "ins_message",
                  !.message_id = counters["message_id"]])
  /\ issued' = [issued EXCEPT !["message_id"] =
                  Append(@, counters["message_id"])]
  /\ UNCHANGED store

\* variant: the message is filed under a conversation_id of its own
InsertMessageOwnConversation(p) ==
  /\ loc[p].pc = "ins_message"
  /\ \E t \in Times :
       /\ messages_by_conversation' =
            InsertMessageRow(messages_by_conversation,
                             counters["conversation_id"] + 1,
                             t, loc[p].message_id, loc[p].sender_id,
                             loc[p].receiver_id, loc[p].content)
       /\ SetLoc(p, [loc[p] EXCEPT !.pc = "upd_conversation",
                                   !.created_at = t])
  /\ UNCHANGED <<counters, conversations, conversations_by_user, issued>>

InsertMessage(p) ==
  /\ loc[p].pc = "ins_message"
  /\ \E t \in Times :
       /\ messages_by_conversation' =
            InsertMessageRow(messages_by_conversation, loc[p].conversation_id,
                             t, loc[p].message_id, loc[p].sender_id,
                             loc[p].receiver_id, loc[p].content)
       /\ SetLoc(p, [loc[p] EXCEPT !.pc = "upd_conversation",
                                   !.created_at = t])
  /\ UNCHANGED <<counters, conversations, conversations_by_user, issued>>

UpdateConversation(p) ==
  /\ loc[p].pc = "upd_conversation"
  /\ conversations' = UpdateConversationRow(conversations,
         loc[p].conversation_id, loc[p].created_at, loc[p].content)
  /\ SetLoc(p, [loc[p] EXCEPT !.pc = "ins_index_user1"])
  /\ UNCHANGED <<counters, messages_by_conversation, conversations_by_user,
                 issued>>

\* variant: the first index insert is left out
InsertIndexUser1Skip(p) ==
  /\ loc[p].pc = "ins_index_user1"
  /\ SetLoc(p, [loc[p] EXCEPT !.pc = "ins_index_user2"])
  /\ UNCHANGED <<store, issued>>

InsertIndexUser1(p) ==
  /\ loc[p].pc = "ins_index_user1"
  /\ conversations_by_user' = InsertIndexRow(conversations_by_user,
         loc[p].user1_id, loc[p].conversation_id, loc[p].created_at,
         loc[p].user1_id, loc[p].user2_id, loc[p].content)
  /\ SetLoc(p, [loc[p] EXCEPT !.pc = "ins_index_user2"])
  /\ UNCHANGED <<counters, conversations, messages_by_conversation, issued>>

\* variant: the second index row is written for user1 again
InsertIndexUser2AsUser1(p) ==
  /\ loc[p].pc = "ins_index_user2"
  /\ conversations_by_user' = InsertIndexRow(conversations_by_user,
         loc[p].user1_id, loc[p].conversation_id, loc[p].created_at,
         loc[p].user1_id, loc[p].user2_id, loc[p].content)
  /\ SetLoc(p, [loc[p] EXCEPT !.pc = "done"])
  /\ UNCHANGED <<counters, conversations, messages_by_conversation, issued>>

InsertIndexUser2(p) ==
  /\ loc[p].pc = "ins_index_user2"
  /\ conversations_by_user' = InsertIndexRow(conversations_by_user,
         loc[p].user2_id, loc[p].conversation_id, loc[p].created_at,
         loc[p].user1_id, loc[p].user2_id, loc[p].content)
  /\ SetLoc(p, [loc[p] EXCEPT !.pc = "done"])
  /\ UNCHANGED <<counters, conversations, messages_by_conversation, issued>>

\* variant: the failure handler restores the tables to what they were when
\* the request began
FailUndo(p) ==
  /\ loc[p].pc \notin Rest
  /\ SetLoc(p, [loc[p] EXCEPT !.pc = "failed", !.detail = loc[p].pc])
  /\ counters' = snap.counters
  /\ conversations' = snap.conversations
  /\ messages_by_conversation' = snap.messages
  /\ conversations_by_user' = snap.index
  /\ UNCHANGED issued

\* A store round trip raises: the except clause turns it into a 500 and
\* nothing is undone or retried.  detail records the round trip that raised.
Fail(p) ==
  /\ loc[p].pc \notin Rest
  /\ SetLoc(p, [loc[p] EXCEPT !.pc = "failed", !.detail = loc[p].pc])
  /\ UNCHANGED <<store, issued>>

Step(p) ==
  \/ SelectSender(p)
  \/ SelectReceiver(p)
  \/ SelectConversation(p)
  \/ IncConversationCounter(p)
  \/ ReadConversationCounter(p)
  \/ InsertConversation(p)
  \/ IncMessageCounter(p)
  \/ ReadMessageCounter(p)
  \/ InsertMessage(p)
  \/ UpdateConversation(p)
  \/ InsertIndexUser1(p)
  \/ InsertIndexUser2(p)

Request(p, cap) ==
  \E s \in UserIds, r \in UserIds : Begin(p, s, r, TextOf(s), cap)

\* Requests of independent callers, interleaved between round trips.
Next ==
  \E p \in Procs : (Request(p, MaxSends) \/ (Step(p) /\ UNCHANGED nreq)) /\ UNCHANGED <<snap, rd>>

Spec == Init /\ [][Next]_vars

\* Interleaved requests whose store round trips may fail.
FailNext ==
  \E p \in Procs :
    /\ Request(p, FailMaxSends) \/ ((Step(p) \/ Fail(p)) /\ UNCHANGED nreq)
    /\ UNCHANGED <<snap, rd>>

SpecFail == Init /\ [][FailNext]_vars

\* One caller, one request at a time; snap records the tables as the
\* request found them.
Caller == "p1"

SeqBegin(p) ==
  /\ Request(p, SeqMaxSends)
  /\ snap' = [proc |-> p, counters |-> counters,
              conversations |-> conversations,
              messages |-> messages_by_conversation,
              index |-> conversations_by_user]

SeqNext ==
  (SeqBegin(Caller) \/ (Step(Caller) /\ UNCHANGED <<nreq, snap>>)) /\ UNCHANGED rd

SpecSeq == Init /\ [][SeqNext]_vars

\* One caller, one request at a time, store round trips may fail.
SeqFailBegin(p) ==
  /\ Request(p, SeqFailMaxSends)
  /\ snap' = [proc |-> p, counters |-> counters,
              conversations |-> conversations,
              messages |-> messages_by_conversation,
              index |-> conversations_by_user]

SeqFailNext ==
  \/ SeqFailBegin(Caller) /\ UNCHANGED rd
  \/ (Step(Caller) \/ Fail(Caller)) /\ UNCHANGED <<nreq, snap, rd>>

SpecSeqFail == Init /\ [][SeqFailNext]_vars

\* ---- a read request, one action per store round trip ----
ReadKinds == {"messages", "before", "conversations"}

\* the rows the count and the fetch of a read path range over
Matching(kind, id, before_timestamp) ==
  IF kind = "messages" THEN MessagePartition(id)
  ELSE IF kind = "before" THEN MessagesBefore(id, before_timestamp)
  ELSE IndexPartition(id)

ReadBegin(kind, id, before_timestamp, page, limit) ==
  /\ rd.pc \in {"idle", "done", "not_found"}
  /\ rd' = [IdleRead EXCEPT !.pc = "check", !.kind = kind, !.id = id,
                            !.before = before_timestamp, !.page = page,
                            !.limit = limit]

\* the existence lookup of the conversation, or of the user
ReadCheck ==
  /\ rd.pc = "check"
  /\ LET exists == IF rd.kind = "conversations"
                     THEN rd.id \in users
                     ELSE \E r \in conversations : r.conversation_id = rd.id
     IN rd' = [rd EXCEPT !.pc = IF exists THEN "count" ELSE "not_found"]

\* variant: the count leaves out the created_at filter
ReadCountUnfiltered ==
  /\ rd.pc = "count"
  /\ rd' = [rd EXCEPT !.pc = "fetch",
                      !.total = Cardinality(Matching(
                                  IF rd.kind = "before" THEN "messages"
                                  ELSE rd.kind, rd.id, rd.before))]

\* SELECT COUNT(*)
ReadCount ==
  /\ rd.pc = "count"
  /\ rd' = [rd EXCEPT !.pc = "fetch",
                      !.total = Cardinality(Matching(rd.kind, rd.id, rd.before))]

\* the LIMIT offset + limit query and the slice
ReadFetch ==
  /\ rd.pc = "fetch"
  /\ LET offset == (rd.page - 1) * rd.limit
         fetched == IF rd.kind = "messages"
                      THEN SelectMessages(rd.id, offset + rd.limit)
                    ELSE IF rd.kind = "before"
                      THEN SelectMessagesBefore(rd.id, rd.before,
                                                offset + rd.limit)
                    ELSE SelectUserConversations(rd.id, offset + rd.limit)
         rows == Window(fetched, offset, rd.limit)
     IN rd' = [rd EXCEPT
                 !.pc = "done",
                 !.present = Cardinality(Matching(rd.kind, rd.id, rd.before)),
                 !.data = [i \in 1..Len(rows) |->
                             IF rd.kind = "conversations"
                               THEN ConversationResponse(rows[i])
                               ELSE MessageResponse(rows[i])]]

ReadStep == ReadCheck \/ ReadCount \/ ReadFetch

ReadRequest ==
  \E kind \in ReadKinds, id \in UserIds, page \in Pages, limit \in Limits :
    \E before_timestamp \in IF kind = "before" THEN Cutoffs ELSE {0} :
      ReadBegin(kind, id, before_timestamp, page, limit)

\* One sender and one reader, interleaved between round trips.
ReadNext ==
  \/ Request(Caller, ReadMaxSends) /\ UNCHANGED <<snap, rd>>
  \/ Step(Caller) /\ UNCHANGED <<nreq, snap, rd>>
  \/ (ReadRequest \/ ReadStep)
       /\ UNCHANGED <<store, loc, issued, nreq, snap>>

SpecRead == Init /\ [][ReadNext]_vars

\* ---- properties ----
Done(p) == loc[p].pc = "done"
SeqNames == {"message_id", "conversation_id"}

\* C1: no two ID allocations on the same sequence return the same value,
\* whatever the interleaving of the increments and the reads.
C1_NoDuplicateIds ==
  \A name \in SeqNames :
    \A i \in 1..Len(issued[name]), j \in 1..Len(issued[name]) :
      i # j => issued[name][i] # issued[name][j]

\* C2: the conversations table holds at most one row for each canonical
\* participant pair.
C2_OneConversationPerPair ==
  \A r1 \in conversations, r2 \in conversations :
    (r1.user1_id = r2.user1_id /\ r1.user2_id = r2.user2_id) => r1 = r2

\* C3: once a send has returned, the partition of the returned
\* conversation_id holds a row with the returned message_id and created_at,
\* the sender and the content of the request.
C3_SentMessageStored ==
  \A p \in Procs :
    Done(p) =>
      \E m \in MessagePartition(loc[p].conversation_id) :
        /\ m.message_id = loc[p].message_id
        /\ m.created_at = loc[p].created_at
        /\ m.sender_id = loc[p].sender_id
        /\ m.content = loc[p].content

\* C4 as stated: after a send, page 1 with limit 1 of the conversation is
\* exactly the sent message, whatever the conversation already held.
C4_NewestIsSent ==
  (Done(Caller) /\ snap.proc = Caller) =>
    LET resp == get_conversation_messages(loc[Caller].conversation_id, 1, 1)
    IN /\ Len(resp.data) = 1
       /\ resp.data[1].content = loc[Caller].content
       /\ resp.data[1].sender_id = loc[Caller].sender_id

HeldEarlier(p) ==
  \A m \in snap.messages :
    m.conversation_id = loc[p].conversation_id
      => m.created_at < loc[p].created_at

\* C4 amended: with sends running one at a time, page 1 with limit 1 is
\* exactly the sent message provided every message the conversation already
\* held has a strictly earlier created_at.
C4_NewestIsSentWhenLatest ==
  (Done(Caller) /\ snap.proc = Caller /\ HeldEarlier(Caller)) =>
    LET resp == get_conversation_messages(loc[Caller].conversation_id, 1, 1)
    IN /\ Len(resp.data) = 1
       /\ resp.data[1].content = loc[Caller].content
       /\ resp.data[1].sender_id = loc[Caller].sender_id
       /\ resp.data[1].id = loc[Caller].message_id

C4_Witness ==
  /\ Done(Caller) /\ snap.proc = Caller /\ HeldEarlier(Caller)
  /\ \E m \in snap.messages :
       /\ m.conversation_id = loc[Caller].conversation_id
       /\ m.sender_id # loc[Caller].sender_id
  /\ get_conversation_messages(loc[Caller].conversation_id, 1, 1).data[1].id
       = loc[Caller].message_id

\* C5: once a send has returned with timestamp t, the conversation list of
\* each participant (page 1, limit covering the partition) has an entry for
\* the conversation with last_message_at t and the content sent.
C5_IndexReflectsSend ==
  \A p \in Procs :
    Done(p) =>
      \A u \in {loc[p].user1_id, loc[p].user2_id} :
        LET resp == get_user_conversations(u, 1,
                        Cardinality(IndexPartition(u)) + 1)
        IN \E i \in 1..Len(resp.data) :
             /\ resp.data[i].id = loc[p].conversation_id
             /\ resp.data[i].last_message_at = loc[p].created_at
             /\ resp.data[i].last_message_content = loc[p].content

\* C6: after any sequence of successful sends every Conversation has exactly
\* two index rows, one in each participant's partition, each carrying the
\* conversation's latest last_message_at and last_message_content.  Stated
\* here for the conversations of two distinct users.
C6_TwoIndexRowsPerConversation ==
  loc[Caller].pc \in {"idle", "done"} =>
    \A r \in {x \in conversations : x.user1_id # x.user2_id} :
      LET rows == {e \in conversations_by_user :
                     e.conversation_id = r.conversation_id}
      IN /\ Cardinality(rows) = 2
         /\ \A u \in {r.user1_id, r.user2_id} :
              /\ Cardinality({e \in rows : e.user_id = u}) = 1
              /\ \A e \in rows :
                   e.user_id = u =>
                     /\ e.last_message_at = r.last_message_at
                     /\ e.last_message_content = r.last_message_content

FirstContact(p) ==
  /\ Done(p) /\ snap.proc = p
  /\ loc[p].sender_id # loc[p].receiver_id
  /\ ~ \E r \in snap.conversations :
         /\ r.user1_id = loc[p].user1_id
         /\ r.user2_id = loc[p].user2_id

IndexEntryOf(p, u) ==
  [user_id |-> u, conversation_id |-> loc[p].conversation_id,
   last_message_at |-> loc[p].created_at, user1_id |-> loc[p].user1_id,
   user2_id |-> loc[p].user2_id, last_message_content |-> loc[p].content]

\* C7: a successful send between two distinct users with no conversation
\* yet, run with no concurrent send, adds exactly one Conversation row and
\* exactly two index rows, one per participant, both carrying the message's
\* content and created_at.
C7_FirstContactCreates ==
  FirstContact(Caller) =>
    /\ snap.conversations \subseteq conversations
    /\ Cardinality(conversations \ snap.conversations) = 1
    /\ \A r \in conversations \ snap.conversations :
         /\ r.conversation_id = loc[Caller].conversation_id
         /\ r.user1_id = loc[Caller].user1_id
         /\ r.user2_id = loc[Caller].user2_id
    /\ snap.index \subseteq conversations_by_user
    /\ Cardinality(conversations_by_user \ snap.index) = 2
    /\ conversations_by_user \ snap.index =
         {IndexEntryOf(Caller, loc[Caller].user1_id),
          IndexEntryOf(Caller, loc[Caller].user2_id)}

C7_Witness ==
  /\ FirstContact(Caller)
  /\ snap.conversations # {}
  /\ snap.index # {}

\* C8: a send whose sender does not exist ends in NotFound naming the
\* sender, one whose sender exists and receiver does not ends in NotFound
\* naming the receiver, and neither gets past its lookup; the counters and
\* the three tables are as the request found them.
C8_NotFoundWritesNothing ==
  LET l == loc[Caller] IN
  /\ (l.pc # "idle" /\ l.sender_id \notin users)
       => l.pc \in {"sel_sender", "not_found"}
  /\ (l.pc # "idle" /\ l.sender_id \in users /\ l.receiver_id \notin users)
       => l.pc \in {"sel_sender", "sel_receiver", "not_found"}
  /\ l.pc = "not_found" =>
       /\ snap.proc = Caller
       /\ l.detail = (IF l.sender_id \notin users THEN "sender"
                      ELSE "receiver")
       /\ l.sender_id \notin users \/ l.receiver_id \notin users
       /\ counters = snap.counters
       /\ conversations = snap.conversations
       /\ messages_by_conversation = snap.messages
       /\ conversations_by_user = snap.index

C8_Witness ==
  /\ loc[Caller].pc = "not_found"
  /\ loc[Caller].detail = "receiver"
  /\ conversations # {}
  /\ messages_by_conversation # {}

\* the row of rank k in clustering order: k - 1 rows of the set come before it
MsgAt(S, k) ==
  CHOOSE m \in S : Cardinality({x \in S : MsgBefore(x, m)}) = k - 1

ConvAt(S, k) ==
  CHOOSE e \in S : Cardinality({x \in S : ConvBefore(x, e)}) = k - 1

\* number of rows of positions (page-1)*limit+1 .. min(page*limit, N)
PageLen(N, page, limit) ==
  IF min(page * limit, N) > (page - 1) * limit
    THEN min(page * limit, N) - (page - 1) * limit
    ELSE 0

\* C9: with N rows in the partition and no write under way, every page >= 1
\* and limit >= 1 yields the rows of positions (page-1)*limit+1 ..
\* min(page*limit, N) of the sorted partition, nothing when (page-1)*limit
\* >= N, and total = N, for messages and for conversations alike.
C9_PageIsWindow ==
  \A page \in Pages, limit \in Limits :
    /\ \A r \in conversations :
         LET S == MessagePartition(r.conversation_id)
             N == Cardinality(S)
             resp == get_conversation_messages(r.conversation_id, page, limit)
         IN /\ resp.status = "ok"
            /\ resp.total = N
            /\ Len(resp.data) = PageLen(N, page, limit)
            /\ \A i \in 1..Len(resp.data) :
                 resp.data[i] =
                   MessageResponse(MsgAt(S, (page - 1) * limit + i))
            /\ (page - 1) * limit >= N => resp.data = <<>>
    /\ \A u \in users :
         LET S == IndexPartition(u)
             N == Cardinality(S)
             resp == get_user_conversations(u, page, limit)
         IN /\ resp.status = "ok"
            /\ resp.total = N
            /\ Len(resp.data) = PageLen(N, page, limit)
            /\ \A i \in 1..Len(resp.data) :
                 resp.data[i] =
                   ConversationResponse(ConvAt(S, (page - 1) * limit + i))
            /\ (page - 1) * limit >= N => resp.data = <<>>

\* three messages in one conversation: page 2 of limit 2 is the last row
\* alone and page 3 is empty with total 3; likewise three index rows
C9_Witness ==
  /\ \E r \in conversations :
       /\ Cardinality(MessagePartition(r.conversation_id)) = 3
       /\ Len(get_conversation_messages(r.conversation_id, 2, 2).data) = 1
       /\ get_conversation_messages(r.conversation_id, 3, 2).data = <<>>
       /\ get_conversation_messages(r.conversation_id, 3, 2).total = 3
  /\ \E u \in users :
       /\ Cardinality(IndexPartition(u)) = 3
       /\ Len(get_user_conversations(u, 2, 2).data) = 1

\* C10: under any interleaving of sends, every page of messages is sorted by
\* created_at descending then message_id ascending, and every page of
\* conversations by last_message_at descending then conversation_id
\* ascending.
C10_PagesSorted ==
  \A page \in Pages, limit \in Limits :
    /\ \A r \in conversations :
         LET d == get_conversation_messages(r.conversation_id, page,
                                            limit).data
         IN \A i \in 1..Len(d), j \in 1..Len(d) :
              i < j =>
                \/ d[i].created_at > d[j].created_at
                \/ d[i].created_at = d[j].created_at /\ d[i].id < d[j].id
    /\ \A u \in users :
         LET d == get_user_conversations(u, page, limit).data
         IN \A i \in 1..Len(d), j \in 1..Len(d) :
              i < j =>
                \/ d[i].last_message_at > d[j].last_message_at
                \/ d[i].last_message_at = d[j].last_message_at
                     /\ d[i].id < d[j].id

\* two interleaved sends have returned, and a page of messages and a page of
\* conversations each hold two items
C10_Witness ==
  /\ \E p \in Procs, q \in Procs : p # q /\ Done(p) /\ Done(q)
  /\ \E r \in conversations :
       Len(get_conversation_messages(r.conversation_id, 1, 2).data) = 2
  /\ \E u \in users : Len(get_user_conversations(u, 1, 2).data) = 2

\* C11: with a cutoff T the message listing returns only messages of the
\* conversation with created_at < T; with no write under way its total is
\* the number of such messages and its pages are the offset/limit windows of
\* those messages in (created_at desc, message_id asc) order.
C11_BeforeIsFilteredWindow ==
  \A page \in Pages, limit \in Limits, T \in Cutoffs :
    \A r \in conversations :
      LET S == {m \in messages_by_conversation :
                  m.conversation_id = r.conversation_id /\ m.created_at < T}
          N == Cardinality(S)
          resp == get_messages_before_timestamp(r.conversation_id, T, page,
                                                limit)
      IN /\ resp.status = "ok"
         /\ resp.total = N
         /\ Len(resp.data) = PageLen(N, page, limit)
         /\ \A i \in 1..Len(resp.data) :
              /\ resp.data[i].created_at < T
              /\ resp.data[i].conversation_id = r.conversation_id
              /\ resp.data[i] =
                   MessageResponse(MsgAt(S, (page - 1) * limit + i))

\* a conversation of three messages of which the cutoff keeps two: page 1 of
\* limit 1 and page 2 of limit 1 hold one each, page 3 is empty
C11_Witness ==
  \E r \in conversations, T \in Cutoffs :
    /\ Cardinality(MessagePartition(r.conversation_id)) = 3
    /\ get_messages_before_timestamp(r.conversation_id, T, 1, 1).total = 2
    /\ Len(get_messages_before_timestamp(r.conversation_id, T, 2, 1).data) = 1
    /\ get_messages_before_timestamp(r.conversation_id, T, 3, 1).data = <<>>

EmptyPage(resp) == resp.status = "ok" /\ resp.data = <<>> /\ resp.total = 0

\* C12: the message listings fail with NotFound exactly for a
\* conversation_id without Conversation row and the conversation listing
\* exactly for a user_id without User row; for an existing conversation or
\* user without matching rows they succeed with no items and total 0.
C12_NotFoundOrEmptyPage ==
  \A page \in Pages, limit \in Limits :
    /\ \A cid \in 1..(counters["conversation_id"] + 1), T \in Cutoffs :
         LET known == \E r \in conversations : r.conversation_id = cid
             all == get_conversation_messages(cid, page, limit)
             cut == get_messages_before_timestamp(cid, T, page, limit)
         IN /\ ~known => all.status = "not_found" /\ cut.status = "not_found"
            /\ known => all.status = "ok" /\ cut.status = "ok"
            /\ (known /\ MessagePartition(cid) = {}) => EmptyPage(all)
            /\ (known /\ MessagesBefore(cid, T) = {}) => EmptyPage(cut)
    /\ \A u \in UserIds :
         LET resp == get_user_conversations(u, page, limit)
         IN /\ u \notin users => resp.status = "not_found"
            /\ u \in users => resp.status = "ok"
            /\ (u \in users /\ IndexPartition(u) = {}) => EmptyPage(resp)

\* a conversation whose row is written and whose first message is not yet,
\* a conversation with a message that the cutoff 1 excludes, and a user
\* without index rows
C12_Witness ==
  /\ \E r \in conversations : MessagePartition(r.conversation_id) = {}
  /\ \E r \in conversations :
       /\ MessagePartition(r.conversation_id) # {}
       /\ EmptyPage(get_messages_before_timestamp(r.conversation_id, 1, 1, 1))
  /\ \E u \in users : EmptyPage(get_user_conversations(u, 1, 1))

StrictlyIncreasing(seq) ==
  \A i \in 1..Len(seq), j \in 1..Len(seq) : i < j => seq[i] < seq[j]

\* C13: allocations on one sequence made one after another return strictly
\* increasing (hence distinct) values, and no step lowers a counter.
C13_SequentialIdsIncrease ==
  /\ [](\A name \in SeqNames : StrictlyIncreasing(issued[name]))
  /\ [][\A name \in SeqNames : counters'[name] >= counters[name]]_vars

C13_Witness ==
  /\ Len(issued["message_id"]) >= 3
  /\ Len(issued["conversation_id"]) >= 2
  /\ counters["message_id"] >= 3

\* ids of the Conversation rows of the unordered pair {a, b} in a table
PairIds(tbl, a, b) ==
  {r.conversation_id : r \in {x \in tbl : /\ x.user1_id = min(a, b)
                                           /\ x.user2_id = max(a, b)}}

Resolved(p) ==
  loc[p].pc \in {"inc_message_id", "read_message_id", "ins_message",
                 "upd_conversation", "ins_index_user1", "ins_index_user2", "done"}

\* C14: when the pair of two distinct existing users already had its
\* Conversation row before a send began (an earlier resolution completed, no
\* other creator running), the send, in either argument order, resolves to the
\* id of that row and never enters the creation path: the pair keeps one row.
C14_ResolutionIsStable ==
  LET l == loc[Caller]
      before == PairIds(snap.conversations, l.sender_id, l.receiver_id)
  IN (/\ snap.proc = Caller
      /\ l.pc \notin {"idle", "not_found", "failed", "sel_sender", "sel_receiver",
                      "sel_conversation"}
      /\ l.sender_id # l.receiver_id
      /\ before # {})
     => /\ Resolved(Caller)
        /\ l.conversation_id \in before
        /\ PairIds(conversations, l.sender_id, l.receiver_id) = before
        /\ Cardinality(before) = 1
        /\ Cardinality(conversations) = Cardinality(snap.conversations)

C14_Witness ==
  /\ Done(Caller)
  /\ snap.proc = Caller
  /\ loc[Caller].sender_id > loc[Caller].receiver_id
  /\ PairIds(snap.conversations, loc[Caller].sender_id, loc[Caller].receiver_id) # {}
  /\ \E m \in snap.messages :
       /\ m.conversation_id = loc[Caller].conversation_id
       /\ m.sender_id = loc[Caller].receiver_id
       /\ m.receiver_id = loc[Caller].sender_id

\* C15 as stated: every Conversation row and every index row has
\* user1_id < user2_id, self-sends included.
C15_StrictOrder ==
  /\ \A r \in conversations : r.user1_id < r.user2_id
  /\ \A e \in conversations_by_user : e.user1_id < e.user2_id

Canonical(l, row) ==
  /\ row.user1_id = min(l.sender_id, l.receiver_id)
  /\ row.user2_id = max(l.sender_id, l.receiver_id)
  /\ row.user1_id <= row.user2_id
  /\ (l.sender_id # l.receiver_id => row.user1_id < row.user2_id)
  /\ (l.sender_id = l.receiver_id => row.user1_id = row.user2_id)

\* C15 (amended): every Conversation row and every index row has
\* user1_id <= user2_id; each insert of send writes (min, max) of its sender
\* and receiver, strictly ordered when they differ and equal on a self-send.
C15_CanonicalOrder ==
  /\ [](/\ \A r \in conversations : r.user1_id <= r.user2_id
        /\ \A e \in conversations_by_user : e.user1_id <= e.user2_id)
  /\ [][\A p \in Procs :
          /\ (loc[p].pc = "ins_conversation" /\ loc'[p].pc # loc[p].pc)
               => \A r \in conversations' \ conversations : Canonical(loc[p], r)
          /\ (loc[p].pc \in {"ins_index_user1", "ins_index_user2"}
                /\ loc'[p].pc # loc[p].pc)
               => \A e \in conversations_by_user' \ conversations_by_user :
                    Canonical(loc[p], e)]_vars

C15_Witness ==
  /\ \E r \in conversations : r.user1_id = r.user2_id
  /\ \E r \in conversations : r.user1_id < r.user2_id
  /\ \E e \in conversations_by_user : e.user1_id = e.user2_id
  /\ \E e \in conversations_by_user : e.user1_id < e.user2_id
  /\ \E p \in Procs : Done(p) /\ loc[p].sender_id > loc[p].receiver_id

\* C16: a Message row, once written, is never changed or removed by a later
\* step of any send, whatever the interleaving.
C16_MessagesAppendOnly ==
  [][messages_by_conversation \subseteq messages_by_conversation']_vars

\* the round trips of send_message in program order
RoundTrips ==
  <<"sel_sender", "sel_receiver", "sel_conversation", "inc_conversation_id",
    "read_conversation_id", "ins_conversation", "inc_message_id",
    "read_message_id", "ins_message", "upd_conversation", "ins_index_user1",
    "ins_index_user2">>

Pos(step) == CHOOSE i \in 1..Len(RoundTrips) : RoundTrips[i] = step

\* the store is what the round trips before the one that raised make of the
\* tables s the request started from; l are the locals of the request
StoreIsPrefix(l, s) ==
  LET before(step) == Pos(step) < Pos(l.detail)
      created == /\ before("sel_conversation")
                 /\ PairIds(s.conversations, l.sender_id, l.receiver_id) = {}
      one(b) == IF b THEN 1 ELSE 0
  IN /\ counters["conversation_id"] = s.counters["conversation_id"]
            + one(created /\ before("inc_conversation_id"))
     /\ counters["message_id"] = s.counters["message_id"]
            + one(before("inc_message_id"))
     /\ \E now \in Times :
          LET c1 == IF created /\ before("ins_conversation")
                      THEN InsertConversationRow(s.conversations,
                             l.conversation_id, l.user1_id, l.user2_id, now)
                      ELSE s.conversations
          IN conversations =
               IF before("upd_conversation")
                 THEN UpdateConversationRow(c1, l.conversation_id,
                                            l.created_at, l.content)
                 ELSE c1
     /\ messages_by_conversation =
          IF before("ins_message")
            THEN InsertMessageRow(s.messages, l.conversation_id, l.created_at,
                   l.message_id, l.sender_id, l.receiver_id, l.content)
            ELSE s.messages
     /\ conversations_by_user =
          IF before("ins_index_user1")
            THEN InsertIndexRow(s.index, l.user1_id, l.conversation_id,
                   l.created_at, l.user1_id, l.user2_id, l.content)
            ELSE s.index

\* C17: when a round trip of send raises, the request ends as failed with the
\* store holding exactly the effects of the round trips completed before it;
\* the failed request takes no further step (no retry, no undo): the caller's
\* next step, if any, is a new request.
C17_FailureLeavesPrefix ==
  /\ []((loc[Caller].pc = "failed" /\ snap.proc = Caller)
          => StoreIsPrefix(loc[Caller], snap))
  /\ [][/\ loc'[Caller].pc = "failed" => store' = store /\ issued' = issued
        /\ (loc[Caller].pc = "failed" /\ loc'[Caller] # loc[Caller])
             => loc'[Caller].pc = "sel_sender" /\ nreq' = nreq + 1]_vars

C17_Witness ==
  /\ loc[Caller].pc = "failed"
  /\ loc[Caller].detail = "ins_index_user2"
  /\ snap.proc = Caller
  /\ PairIds(snap.conversations, loc[Caller].sender_id, loc[Caller].receiver_id) = {}
  /\ snap.messages # {}
  /\ StoreIsPrefix(loc[Caller], snap)

\* Message rows of table tbl that carry the same sender, receiver and content
\* as the request with locals l
SameSubmission(tbl, l) ==
  {m \in tbl : /\ m.sender_id = l.sender_id
               /\ m.receiver_id = l.receiver_id
               /\ m.content = l.content}

\* C18: a send that repeats the sender, receiver and content of an earlier
\* attempt whose Message row was written (the attempt succeeded, or failed
\* after the message insert) gets a message_id no earlier row has, keeps the
\* earlier rows, and adds a row of the same conversation and content under the
\* new id.
C18_ResubmissionDuplicates ==
  LET l == loc[Caller]
      prior == SameSubmission(snap.messages, l)
  IN (Done(Caller) /\ snap.proc = Caller /\ prior # {})
     => /\ \A m \in snap.messages : m.message_id < l.message_id
        /\ prior \subseteq messages_by_conversation
        /\ \A m \in prior : m.conversation_id = l.conversation_id
        /\ \E m \in SameSubmission(messages_by_conversation, l) \ prior :
             /\ m.message_id = l.message_id
             /\ m.conversation_id = l.conversation_id
        /\ Cardinality({m.message_id :
                          m \in SameSubmission(messages_by_conversation, l)})
             = Cardinality(prior) + 1

\* the resubmission follows an attempt that failed after its message insert
\* and one that succeeded
C18_Witness ==
  LET l == loc[Caller]
      prior == SameSubmission(snap.messages, l)
  IN /\ Done(Caller)
     /\ snap.proc = Caller
     /\ Cardinality(prior) = 2
     /\ \E m \in prior :
          \A e \in snap.index : ~(/\ e.conversation_id = m.conversation_id
                                  /\ e.last_message_at = m.created_at)
     /\ snap.index # {}

\* C19: an allocation whose increment succeeded does not end in failure
\* because the read of the counter raised: the read is tried again and a value
\* is returned.
C19_ReadFailureIsRetried ==
  \A p \in Procs :
    ~(/\ loc[p].pc = "failed"
      /\ loc[p].detail \in {"read_conversation_id", "read_message_id"})

\* (last_message_at, last_message_content) of the entries user u has for
\* conversation cid in index table tbl
Snapshots(tbl, u, cid) ==
  {<<e.last_message_at, e.last_message_content>> :
     e \in {x \in tbl : x.user_id = u /\ x.conversation_id = cid}}

\* the snapshot listed first among them (last_message_at descending)
NewestSnapshot(tbl, u, cid) ==
  CHOOSE x \in Snapshots(tbl, u, cid) :
    \A y \in Snapshots(tbl, u, cid) : y[1] <= x[1]

\* a send failed between its two index writes
FailedBetweenIndexWrites(l) ==
  /\ l.pc = "failed"
  /\ l.detail = "ins_index_user2"
  /\ snap.proc = Caller
  /\ l.user1_id # l.user2_id

\* a send completed on a conversation whose two lists disagreed when it began
SentAfterPartialFanOut(l) ==
  /\ l.pc = "done"
  /\ snap.proc = Caller
  /\ l.user1_id # l.user2_id
  /\ Snapshots(snap.index, l.user1_id, l.conversation_id)
       # Snapshots(snap.index, l.user2_id, l.conversation_id)

\* C20: after the failure the new snapshot is in user1's list and the send
\* has put nothing in user2's list; after the next successful send on the
\* conversation both lists show the same newest entry for it.
C20_ListsAgreeAfterNextSend ==
  LET l == loc[Caller]
      cid == l.conversation_id
  IN /\ FailedBetweenIndexWrites(l)
          => /\ <<l.created_at, l.content>>
                  \in Snapshots(conversations_by_user, l.user1_id, cid)
             /\ Snapshots(conversations_by_user, l.user2_id, cid)
                  = Snapshots(snap.index, l.user2_id, cid)
     /\ SentAfterPartialFanOut(l)
          => NewestSnapshot(conversations_by_user, l.user1_id, cid)
               = NewestSnapshot(conversations_by_user, l.user2_id, cid)

\* C21: once a Conversation row exists for a conversation_id, no step of any
\* send changes its user1_id or user2_id or removes it.
C21_ParticipantsNeverChange ==
  [][\A r \in conversations :
       \E q \in conversations' :
         /\ q.conversation_id = r.conversation_id
         /\ q.user1_id = r.user1_id
         /\ q.user2_id = r.user2_id]_vars

\* Conversation rows of table tbl for the canonical pair (u1, u2)
PairRows(tbl, u1, u2) == {r \in tbl : r.user1_id = u1 /\ r.user2_id = u2}

\* C22: nothing makes the lookup and the creation one step: a lookup that
\* finds no row for the pair goes on to create one whatever the other caller
\* is doing, and the insert that follows writes the caller's row even when the
\* pair has got a row in between; so two first-contact sends of one pair can
\* end with two rows of distinct ids (the witness).
C22_LookupThenCreateNotAtomic ==
  [][\A p \in Procs :
       /\ (/\ loc[p].pc = "sel_conversation"
           /\ loc'[p].pc # "sel_conversation"
           /\ PairRows(conversations, min(loc[p].sender_id, loc[p].receiver_id),
                       max(loc[p].sender_id, loc[p].receiver_id)) = {})
            => loc'[p].pc = "inc_conversation_id"
       /\ (loc[p].pc = "ins_conversation" /\ loc'[p].pc # "ins_conversation")
            => \E r \in PairRows(conversations', loc[p].user1_id, loc[p].user2_id) :
                 r.conversation_id = loc[p].conversation_id]_vars

C22_Witness ==
  /\ \A p \in Procs : Done(p)
  /\ loc["p1"].user1_id = loc["p2"].user1_id
  /\ loc["p1"].user2_id = loc["p2"].user2_id
  /\ loc["p1"].user1_id # loc["p1"].user2_id
  /\ loc["p1"].conversation_id # loc["p2"].conversation_id
  /\ Cardinality(conversations) = 2
  /\ Cardinality(PairRows(conversations, loc["p1"].user1_id,
                          loc["p1"].user2_id)) = 2
  /\ nreq = 2

\* the index rows the two index inserts of the caller's send address
IndexWrites(p) == {IndexEntryOf(p, loc[p].user1_id), IndexEntryOf(p, loc[p].user2_id)}

\* what a completed send of the caller has changed since it began
SendEffects(p, n) ==
  /\ counters["message_id"] = snap.counters["message_id"] + 1
  /\ \A r \in snap.conversations :
       r.conversation_id # loc[p].conversation_id => r \in conversations
  /\ \A r \in conversations \ snap.conversations :
       r.conversation_id = loc[p].conversation_id
  /\ IndexWrites(p) \subseteq conversations_by_user
  /\ conversations_by_user \ snap.index \subseteq IndexWrites(p)
  /\ Cardinality(IndexWrites(p)) = n

\* C23 as stated: every successful send, self-sends included, increments the
\* message counter, writes at most one Conversation row and writes two
\* distinct index rows.
C23_TwoIndexRowsAlways ==
  (Done(Caller) /\ snap.proc = Caller) => SendEffects(Caller, 2)

\* C23 (amended): every successful send increments the message counter and
\* writes at most one Conversation row; its two index inserts address two
\* distinct rows when sender and receiver differ, and one and the same row
\* when they are equal.
C23_SendEffects ==
  (Done(Caller) /\ snap.proc = Caller)
    => SendEffects(Caller, IF loc[Caller].sender_id # loc[Caller].receiver_id
                             THEN 2 ELSE 1)

C23_Witness ==
  /\ Done(Caller) /\ snap.proc = Caller
  /\ loc[Caller].sender_id = loc[Caller].receiver_id
  /\ snap.index # {}
  /\ Cardinality(conversations_by_user \ snap.index) = 1
  /\ \E p \in snap.conversations : p.conversation_id = loc[Caller].conversation_id

\* C24: a send whose lookup finds the pair's row (self-sends included) leaves
\* the conversation_id counter as it was, adds no Conversation row, and files
\* the message and both index entries under the id of the row it found.
C24_FoundPathIsReadOnly ==
  LET l == loc[Caller]
      found == PairRows(snap.conversations, l.user1_id, l.user2_id)
  IN (Done(Caller) /\ snap.proc = Caller /\ found # {})
     => /\ counters["conversation_id"] = snap.counters["conversation_id"]
        /\ {r.conversation_id : r \in conversations}
             = {r.conversation_id : r \in snap.conversations}
        /\ PairRows(conversations, l.user1_id, l.user2_id)
             = {[r EXCEPT !.last_message_at = l.created_at,
                          !.last_message_content = l.content] : r \in found}
        /\ l.conversation_id \in {r.conversation_id : r \in found}
        /\ \E m \in messages_by_conversation \ snap.messages :
             /\ m.conversation_id = l.conversation_id
             /\ m.message_id = l.message_id
        /\ \A m \in messages_by_conversation \ snap.messages :
             m.conversation_id = l.conversation_id
        /\ IndexWrites(Caller) \subseteq conversations_by_user

C24_Witness ==
  LET l == loc[Caller]
  IN /\ Done(Caller) /\ snap.proc = Caller
     /\ PairRows(snap.conversations, l.user1_id, l.user2_id) # {}
     /\ Cardinality(snap.conversations) = 2
     /\ counters["conversation_id"] = 2
     /\ l.conversation_id = 1

\* C25: for every conversation, page and limit, the items
\* MessageModel.get_conversation_messages returns are the items of the
\* controller's page: the same messages in the same order.
C25_ModelPageEqualsControllerPage ==
  \A r \in conversations : \A page \in Pages, limit \in Limits :
    LET fromModel == MessageModel_get_conversation_messages(
                       r.conversation_id, page, limit)
        fromController == get_conversation_messages(
                            r.conversation_id, page, limit).data
    IN /\ Len(fromModel) = Len(fromController)
       /\ \A i \in 1..Len(fromModel) :
            /\ fromModel[i].message_id = fromController[i].id
            /\ fromModel[i].created_at = fromController[i].created_at
            /\ fromModel[i].sender_id = fromController[i].sender_id
            /\ fromModel[i].receiver_id = fromController[i].receiver_id
            /\ fromModel[i].content = fromController[i].content

NoSendInProgress == \A p \in Procs : loc[p].pc \in Rest

\* C26: whenever no send is in progress, every Conversation row that has
\* messages carries the largest created_at of its messages as last_message_at
\* and the content of a message with that created_at.
C26_ConversationShowsLatest ==
  NoSendInProgress =>
    \A r \in conversations :
      LET msgs == MessagePartition(r.conversation_id)
      IN msgs # {} =>
           /\ \A m \in msgs : m.created_at <= r.last_message_at
           /\ \E m \in msgs : /\ m.created_at = r.last_message_at
                              /\ m.content = r.last_message_content

\* C27: in every state, states left by a failed send included, every index
\* entry (user_id, t, c) has a Message row of conversation c with
\* created_at = t and a Conversation row c, and an entry of the pair's
\* higher-id participant at (t, c) has one of the lower-id participant at
\* (t, c) beside it.
C27_IndexEntriesAreBacked ==
  \A e \in conversations_by_user :
    /\ \E m \in messages_by_conversation :
         /\ m.conversation_id = e.conversation_id
         /\ m.created_at = e.last_message_at
    /\ \E r \in conversations : r.conversation_id = e.conversation_id
    /\ e.user_id = e.user2_id
         => \E f \in conversations_by_user :
              /\ f.user_id = e.user1_id
              /\ f.last_message_at = e.last_message_at
              /\ f.conversation_id = e.conversation_id

C27_Witness ==
  \E p \in Procs, q \in Procs :
    /\ loc[p].pc = "failed" /\ loc[p].detail = "ins_index_user2"
    /\ loc[p].user1_id # loc[p].user2_id
    /\ IndexEntryOf(p, loc[p].user1_id) \in conversations_by_user
    /\ ~ \E e \in conversations_by_user :
           /\ e.user_id = loc[p].user2_id
           /\ e.last_message_at = loc[p].created_at
           /\ e.conversation_id = loc[p].conversation_id
    /\ Done(q)
    /\ IndexEntryOf(q, loc[q].user2_id) \in conversations_by_user

\* C28: the total a read reports was counted before its fetch and rows are
\* only added in between, so the total is at most the number of matching rows
\* the fetch finds; a first page whose limit is at least the total carries at
\* least total items.
C28_TotalNeverExceedsFetched ==
  /\ rd.pc = "fetch"
       => rd.total <= Cardinality(Matching(rd.kind, rd.id, rd.before))
  /\ rd.pc = "done"
       => /\ rd.total <= rd.present
          /\ (rd.page = 1 /\ rd.limit >= rd.total) => Len(rd.data) >= rd.total

\* a send has added a row between the count and the fetch
C28_Witness ==
  /\ rd.pc = "done"
  /\ rd.page = 1
  /\ rd.total = 1
  /\ rd.present = 2
  /\ rd.limit = 2
  /\ Len(rd.data) = 2

====
